---- MODULE Spec2Model ----
(***************************************************************************)
(* gst-dots: a watch / render / sync pipeline (src/index.js).              *)
(*                                                                         *)
(* Two chokidar watchers drive the program.  The source watcher reports    *)
(* description files (<dir>/*dot); its handler spawns the renderer and     *)
(* writes a wrapper page, or deletes both artifacts.  The registry watcher *)
(* reports wrapper pages (public/svg/*html); its handler maintains the     *)
(* ordered list `dots` and asks the live-reload server to refresh.         *)
(*                                                                         *)
(* Strings are sequences of one-character strings, so that basename,       *)
(* String.prototype.replace and the glob matches are computed as the code  *)
(* computes them.  The alphabets below contain no "$", which is the only   *)
(* character with a special meaning in a replacement string.               *)
(***************************************************************************)
EXTENDS Integers, Sequences, FiniteSets, TLC

VARIABLES
    \* ---- registry side (src/index.js:16, 65-74) ----
    dots,        \* the registry list `dots`
    refreshes,   \* number of liveReloadServer.refresh("/") calls so far
    regHist,     \* history: events delivered to the registry handler (SpecRegistry)
    \* ---- render pipeline (src/index.js:30-63) ----
    running,     \* the node process is alive
    spawnErrors, \* description files whose spawn('dot') raised an 'error' event
    srcWatched,  \* description files the source watcher has reported and not removed
    procs,       \* live renderer processes per description file
    reads,       \* pending fs.readFile callbacks per description file
    writes,      \* pending fs.writeFile callbacks per description file
    disk,        \* output directory: normalised path -> content
    regWatched,  \* wrapper pages the registry watcher has reported and not removed
    dirty,       \* watched wrapper pages rewritten since the watcher last looked
    errors,      \* what console.error has logged: "read" / "write"
    hist,        \* history: source-watcher events handled so far
    settled,     \* history: every source event so far arrived in a quiescent state
    \* ---- path derivation in isolation (SpecPaths) ----
    derivIn,     \* a description file path reported by the source watcher
    derivOut,    \* what lines 31, 32 and 44 compute from it, or NoDeriv
    \* ---- the registry handler line by line (SpecRegistrySteps) ----
    inflight,    \* invocations of the registry handler that have not returned
    viewer       \* what a browser last fetched through app.get('')

regVars  == <<dots, refreshes, regHist>>
pipeVars == <<running, spawnErrors, srcWatched, procs, reads, writes, disk,
              regWatched, dirty, errors, hist, settled>>
pathVars == <<derivIn, derivOut>>
stepVars == <<inflight, viewer>>
vars     == <<regVars, pipeVars, pathVars, stepVars>>

----------------------------------------------------------------------------
(* Bounds *)

MaxRegEvents == 4   \* registry-watcher events in SpecRegistry
MaxHist      == 4   \* source-watcher events in Spec
MaxNameLen   == 5   \* length of a description file name in SpecPaths
MaxSrcEvents == 3   \* source-watcher events in SpecSource
MaxStepEvents == 3  \* registry-watcher events in SpecRegistrySteps

----------------------------------------------------------------------------
(* Strings *)

S_dot   == <<".", "d", "o", "t">>
S_svg   == <<".", "s", "v", "g">>
S_html  == <<".", "h", "t", "m", "l">>
S_publicSlash == <<"p", "u", "b", "l", "i", "c", "/">>
S_svgSlash    == <<"s", "v", "g", "/">>

svgDir == <<".", "/">> \o S_publicSlash \o S_svgSlash

Placeholder ==
    <<"{", "{", " ", "s", "v", "g", "_", "f", "i", "l", "e", "_",
      "p", "a", "t", "h", " ", "}", "}">>

\* templates/single_graph_template.html: some markup around one placeholder.
Template == <<"<">> \o Placeholder \o <<">">>

StartsWith(s, pre) ==
    /\ Len(s) >= Len(pre)
    /\ SubSeq(s, 1, Len(pre)) = pre

EndsWith(s, suf) ==
    /\ Len(s) >= Len(suf)
    /\ SubSeq(s, Len(s) - Len(suf) + 1, Len(s)) = suf

\* String.prototype.indexOf: 0-based index of the first occurrence, or -1.
StrIndexOf(s, pat) ==
    LET hits == { i \in 0..(Len(s) - Len(pat)) : SubSeq(s, i + 1, i + Len(pat)) = pat }
    IN  IF hits = {} THEN -1 ELSE CHOOSE i \in hits : \A j \in hits : i <= j

\* String.prototype.replace with a string pattern: the first occurrence only.
Replace(s, pat, rep) ==
    LET i == StrIndexOf(s, pat)
    IN  IF i < 0 THEN s
        ELSE SubSeq(s, 1, i) \o rep \o SubSeq(s, i + Len(pat) + 1, Len(s))

\* path.basename: what follows the last "/".
basename(p) ==
    LET slashes == { i \in 1..Len(p) : p[i] = "/" }
    IN  IF slashes = {} THEN p
        ELSE SubSeq(p, (CHOOSE i \in slashes : \A j \in slashes : j <= i) + 1, Len(p))

\* The file system's view of a relative path: "./x" and "x" are one file.
Normalize(p) == IF StartsWith(p, <<".", "/">>) THEN SubSeq(p, 3, Len(p)) ELSE p

\* A glob "<dir>/*<suffix>": a file directly in dir whose name ends in suffix.
MatchesGlob(p, dir, suffix) ==
    /\ StartsWith(p, dir)
    /\ LET name == SubSeq(p, Len(dir) + 1, Len(p))
       IN  /\ \A i \in 1..Len(name) : name[i] # "/"
           /\ EndsWith(name, suffix)

----------------------------------------------------------------------------
(* Path derivation, src/index.js:31-32, 44 *)

svg_file(dotFile)  == svgDir \o Replace(basename(dotFile), S_dot, S_svg)

html_file(dotFile) == svgDir \o Replace(basename(dotFile), S_dot, S_html)

graphHtml(dotFile) ==
    Replace(Template, Placeholder, Replace(basename(dotFile), S_dot, S_svg))

----------------------------------------------------------------------------
(* The registry handler, src/index.js:65-74 *)

\* Mutant: arr.indexOf(x, 1), which never finds the first element.
ArrIndexOf_FromOne(arr, x) ==
    LET hits == { i \in 2..Len(arr) : arr[i] = x }
    IN  IF hits = {} THEN -1 ELSE (CHOOSE i \in hits : \A j \in hits : i <= j) - 1

\* Array.prototype.indexOf: 0-based index of the first match, or -1.
ArrIndexOf(arr, x) ==
    LET hits == { i \in 1..Len(arr) : arr[i] = x }
    IN  IF hits = {} THEN -1 ELSE (CHOOSE i \in hits : \A j \in hits : i <= j) - 1

\* Mutant: arr.splice(index), which deletes everything from index on.
Splice1_NoCount(arr, index) == SubSeq(arr, 1, index)

\* arr.splice(index, 1) with a 0-based index.
Splice1(arr, index) == SubSeq(arr, 1, index) \o SubSeq(arr, index + 2, Len(arr))

\* line 66: path.replace('public/', '')
RegEntry(path) == Replace(path, S_publicSlash, <<>>)

\* lines 68-72: the new value of `dots` for an index found at line 67.
ApplyAt(d, event, html, index) ==
    IF event = "add" /\ index < 0 THEN Append(d, html)
    ELSE IF event = "unlink" /\ index >= 0 THEN Splice1(d, index)
    ELSE d

\* Mutant: the add branch without its `index < 0` test.
RegistryApply_PushAlways(d, event, path) ==
    LET html  == RegEntry(path)
        index == ArrIndexOf(d, html)
    IN  IF event = "add" THEN Append(d, html)
        ELSE IF event = "unlink" /\ index >= 0 THEN Splice1(d, index)
        ELSE d

\* Mutant: the unlink branch tests `index > 0`.
RegistryApply_UnlinkIndexGt0(d, event, path) ==
    LET html  == RegEntry(path)
        index == ArrIndexOf(d, html)
    IN  IF event = "add" /\ index < 0 THEN Append(d, html)
        ELSE IF event = "unlink" /\ index > 0 THEN Splice1(d, index)
        ELSE d

\* Mutant: the unlink branch without its `index >= 0` test; splice(-1, 1)
\* deletes the last element.
RegistryApply_UnlinkNoGuard(d, event, path) ==
    LET html  == RegEntry(path)
        index == ArrIndexOf(d, html)
    IN  IF event = "add" /\ index < 0 THEN Append(d, html)
        ELSE IF event = "unlink"
             THEN IF index >= 0 THEN Splice1(d, index)
                  ELSE SubSeq(d, 1, Len(d) - 1)
        ELSE d

\* lines 66-72: the new value of `dots`.
RegistryApply(d, event, path) ==
    LET html  == RegEntry(path)
        index == ArrIndexOf(d, html)
    IN  ApplyAt(d, event, html, index)

\* Mutant: refresh only when the event changed `dots`.
RefreshCount_OnlyOnChange(d, event, path) ==
    IF RegistryApply(d, event, path) # d THEN 1 ELSE 0

\* line 73: how many refresh signals the handler sends for one event.
RefreshCount(d, event, path) == 1

\* lines 65-74, the whole handler.
RegistryHandler(event, path) ==
    /\ dots' = RegistryApply(dots, event, path)
    /\ refreshes' = refreshes + RefreshCount(dots, event, path)

----------------------------------------------------------------------------
(* The registry handler under arbitrary events: SpecRegistry *)

RegEvents == {"add", "unlink", "change"}

RegDir == S_publicSlash \o S_svgSlash

\* Paths the watcher of 'public/svg/*html' can report.
RegPaths ==
    { RegDir \o <<"a">> \o S_html,
      RegDir \o <<"b">> \o S_html,
      RegDir \o <<"x", "h", "t", "m", "l">> }

InitRegistry ==
    /\ dots = <<>>
    /\ refreshes = 0
    /\ regHist = <<>>

NoDeriv == [svg_file |-> <<>>, html_file |-> <<>>, graphHtml |-> <<>>]

EmptyDir == [p \in {} |-> <<>>]

\* The description files of Spec, as the source watcher reports them.
DotFiles ==
    { <<".", "/", "a">> \o S_dot,
      <<".", "/", "b">> \o S_dot }

\* lines 16, 26-29: empty registry, output directory wiped and recreated.
InitPipeline ==
    /\ running = TRUE
    /\ spawnErrors = {}
    /\ srcWatched = {}
    /\ procs = [d \in DotFiles |-> 0]
    /\ reads = [d \in DotFiles |-> 0]
    /\ writes = [d \in DotFiles |-> 0]
    /\ disk = EmptyDir
    /\ regWatched = {}
    /\ dirty = {}
    /\ errors = {}
    /\ hist = <<>>
    /\ settled = TRUE

InitPathsIdle ==
    /\ derivIn = <<>>
    /\ derivOut = NoDeriv

\* No handler is running and the browser has fetched nothing yet.
InitSteps ==
    /\ inflight = <<>>
    /\ viewer = [fetched |-> 0, version |-> 0, snapshot |-> <<>>]

Init == InitRegistry /\ InitPipeline /\ InitPathsIdle /\ InitSteps

\* One event delivered to the handler of lines 65-74.
RegistryEvent ==
    \E event \in RegEvents, path \in RegPaths :
        /\ Len(regHist) < MaxRegEvents
        /\ RegistryHandler(event, path)
        /\ regHist' = Append(regHist, <<event, path>>)
        /\ UNCHANGED <<pipeVars, pathVars, stepVars>>

NextRegistry == RegistryEvent

SpecRegistry == Init /\ [][NextRegistry]_vars

----------------------------------------------------------------------------
(* The registry handler line by line, and a browser: SpecRegistrySteps *)

Invocation(event, path) ==
    [event |-> event, path |-> path,
     index |-> ArrIndexOf(dots, RegEntry(path)), pc |-> "lookedUp"]

RemoveAt(seq, i) == SubSeq(seq, 1, i - 1) \o SubSeq(seq, i + 1, Len(seq))

\* Mutant: the handler awaits between line 67 and line 68, so that another
\* invocation may start before this one has changed `dots`.
RegStart_Interleaved(event, path) ==
    /\ Len(regHist) + Len(inflight) < MaxStepEvents
    /\ inflight' = Append(inflight, Invocation(event, path))
    /\ UNCHANGED <<regVars, viewer, pipeVars, pathVars>>

\* lines 65-67: the handler is called and looks the path up.  The body has
\* no await, so no callback starts before the previous one has returned.
RegStart(event, path) ==
    /\ inflight = <<>>
    /\ Len(regHist) < MaxStepEvents
    /\ inflight' = Append(inflight, Invocation(event, path))
    /\ UNCHANGED <<regVars, viewer, pipeVars, pathVars>>

\* lines 68-72: push or splice with the index of line 67.
RegMutate ==
    \E i \in DOMAIN inflight :
        /\ inflight[i].pc = "lookedUp"
        /\ dots' = ApplyAt(dots, inflight[i].event, RegEntry(inflight[i].path),
                           inflight[i].index)
        /\ regHist' = Append(regHist, <<inflight[i].event, inflight[i].path>>)
        /\ inflight' = [inflight EXCEPT ![i].pc = "mutated"]
        /\ UNCHANGED <<refreshes, viewer, pipeVars, pathVars>>

\* Mutant: liveReloadServer.refresh is called before the if/else of lines
\* 68-72 instead of after it.
RegRefresh_BeforeMutation ==
    \E i \in DOMAIN inflight :
        /\ inflight[i].pc = "lookedUp"
        /\ refreshes' = refreshes + 1
        /\ inflight' = [inflight EXCEPT ![i].pc = "refreshed"]
        /\ UNCHANGED <<dots, regHist, viewer, pipeVars, pathVars>>

\* line 73: the refresh signal; the handler returns.
RegRefresh ==
    \E i \in DOMAIN inflight :
        /\ inflight[i].pc = "mutated"
        /\ refreshes' = refreshes + 1
        /\ inflight' = RemoveAt(inflight, i)
        /\ UNCHANGED <<dots, regHist, viewer, pipeVars, pathVars>>

\* lines 17-21: a browser that got a refresh signal fetches the page; the
\* request is served between callbacks, never inside one.
ViewerFetch ==
    /\ inflight = <<>>
    /\ viewer.fetched < refreshes
    /\ viewer' = [fetched |-> refreshes, version |-> Len(regHist), snapshot |-> dots]
    /\ UNCHANGED <<regVars, inflight, pipeVars, pathVars>>

NextRegistrySteps ==
    \/ \E event \in RegEvents, path \in RegPaths : RegStart(event, path)
    \/ RegMutate
    \/ RegRefresh
    \/ ViewerFetch

SpecRegistrySteps == Init /\ [][NextRegistrySteps]_vars

----------------------------------------------------------------------------
(* Path derivation for every file name the source watcher can report:      *)
(* SpecPaths                                                               *)

NameChars == {"a", ".", "d", "o", "t"}

DotDirs == { <<".">>, <<"g">> \o S_dot }

\* File names matched by '*dot'.
DotNames ==
    { n \in UNION { [1..k -> NameChars] : k \in 1..MaxNameLen } :
        EndsWith(n, <<"d", "o", "t">>) }

DerivInputs == { dir \o <<"/">> \o n : dir \in DotDirs, n \in DotNames }

InitPaths ==
    /\ InitRegistry
    /\ InitPipeline
    /\ derivIn \in DerivInputs
    /\ derivOut = NoDeriv
    /\ InitSteps

\* lines 31, 32, 44 applied to derivIn.
Derive ==
    /\ derivOut = NoDeriv
    /\ derivOut' = [svg_file  |-> svg_file(derivIn),
                    html_file |-> html_file(derivIn),
                    graphHtml |-> graphHtml(derivIn)]
    /\ UNCHANGED <<derivIn, regVars, pipeVars, stepVars>>

NextPaths == Derive

SpecPaths == InitPaths /\ [][NextPaths]_vars

----------------------------------------------------------------------------
(* The render pipeline and both watchers end to end: Spec *)

SvgContent == <<"s", "v", "g">>

DiskWrite(dsk, path, content) ==
    [q \in DOMAIN dsk \cup {path} |-> IF q = path THEN content ELSE dsk[q]]

DiskRemove(dsk, paths) == [q \in DOMAIN dsk \ paths |-> dsk[q]]

\* Mutant: the artifact is left in place.
RmIfExists_Keep(dsk, path) == dsk

\* fs.existsSync / fs.rmSync of lines 56-61.
RmIfExists(dsk, path) ==
    IF Normalize(path) \in DOMAIN dsk THEN DiskRemove(dsk, {Normalize(path)}) ELSE dsk

\* Wrapper pages in the output directory that match 'public/svg/*html'.
WrapperPagesOnDisk == { p \in DOMAIN disk : MatchesGlob(p, RegDir, <<"h", "t", "m", "l">>) }

\* Nothing is pending: no renderer, no file callback, no watcher event.
Quiescent ==
    /\ \A d \in DotFiles : procs[d] = 0 /\ reads[d] = 0 /\ writes[d] = 0
    /\ regWatched = WrapperPagesOnDisk
    /\ dirty = {}

Record(event, dotFile) ==
    /\ hist' = Append(hist, <<event, dotFile>>)
    /\ settled' = (settled /\ Quiescent)

\* fs.rmSync without `force` throws ENOENT for a path that does not exist.
RmSyncThrows(dsk, path) == Normalize(path) \notin DOMAIN dsk

\* Mutant: both fs.rmSync calls without their fs.existsSync test.
UnlinkThrows_NoExistsCheck(dsk, dotFile) ==
    \/ RmSyncThrows(dsk, svg_file(dotFile))
    \/ RmSyncThrows(RmIfExists(dsk, svg_file(dotFile)), html_file(dotFile))

\* lines 56-61: does the unlink branch throw?  Each rmSync runs only after
\* existsSync has answered true in the same synchronous block.
UnlinkThrows(dsk, dotFile) ==
    LET afterSvg == RmIfExists(dsk, svg_file(dotFile))
    IN  \/ /\ Normalize(svg_file(dotFile)) \in DOMAIN dsk
           /\ RmSyncThrows(dsk, svg_file(dotFile))
        \/ /\ Normalize(html_file(dotFile)) \in DOMAIN afterSvg
           /\ RmSyncThrows(afterSvg, html_file(dotFile))

\* lines 56-61: the output directory after the unlink branch.
UnlinkArtifacts(dsk, dotFile) ==
    RmIfExists(RmIfExists(dsk, svg_file(dotFile)), html_file(dotFile))

SrcEvents == {"add", "unlink", "change"}

\* Mutant: every event that is not 'unlink' is rendered (`else` for 'add').
SourceHandler_RendersOnChange(event, dotFile) ==
    /\ running
    /\ Len(hist) < MaxHist
    /\ Record(event, dotFile)
    /\ IF event # "unlink"
       THEN /\ srcWatched' = srcWatched \cup {dotFile}
            /\ reads' = [reads EXCEPT ![dotFile] = @ + 1]
            /\ procs' = [procs EXCEPT ![dotFile] = @ + 1]
            /\ UNCHANGED <<running, spawnErrors, disk>>
       ELSE /\ srcWatched' = srcWatched \ {dotFile}
            /\ disk' = UnlinkArtifacts(disk, dotFile)
            /\ UNCHANGED <<running, spawnErrors, procs, reads>>
    /\ UNCHANGED <<writes, regWatched, dirty, errors, regVars, pathVars, stepVars>>

\* lines 30-63, the whole handler of the source watcher.
\* 'add': spawn() either starts a renderer process or raises an 'error' event
\* on the child (ENOENT, EACCES, ...); the child has no 'error' listener, so
\* the event is thrown and ends the node process before any file callback
\* runs.  'unlink': an exception of rmSync would end the process as well.
SourceHandler(event, dotFile) ==
    /\ running
    /\ Len(hist) < MaxHist
    /\ Record(event, dotFile)
    /\ IF event = "add"
       THEN /\ srcWatched' = srcWatched \cup {dotFile}
            /\ reads' = [reads EXCEPT ![dotFile] = @ + 1]
            /\ \E spawned \in BOOLEAN :
                  IF spawned
                  THEN /\ procs' = [procs EXCEPT ![dotFile] = @ + 1]
                       /\ UNCHANGED <<running, spawnErrors>>
                  ELSE /\ spawnErrors' = spawnErrors \cup {dotFile}
                       /\ running' = FALSE
                       /\ UNCHANGED procs
            /\ UNCHANGED disk
       ELSE IF event = "unlink"
       THEN /\ srcWatched' = srcWatched \ {dotFile}
            /\ disk' = UnlinkArtifacts(disk, dotFile)
            /\ running' = (running /\ ~UnlinkThrows(disk, dotFile))
            /\ UNCHANGED <<spawnErrors, procs, reads>>
       ELSE UNCHANGED <<running, spawnErrors, srcWatched, procs, reads, disk>>
    /\ UNCHANGED <<writes, regWatched, dirty, errors, regVars, pathVars, stepVars>>

\* The source watcher reports a new description file.
SrcAdd(dotFile) ==
    /\ dotFile \notin srcWatched
    /\ SourceHandler("add", dotFile)

\* The source watcher reports a description file gone.
SrcUnlink(dotFile) ==
    /\ dotFile \in srcWatched
    /\ SourceHandler("unlink", dotFile)

\* The source watcher reports a description file modified.
SrcChange(dotFile) ==
    /\ dotFile \in srcWatched
    /\ SourceHandler("change", dotFile)

\* The renderer process of line 35 exits, having written the image or not.
RenderExit(dotFile) ==
    /\ procs[dotFile] > 0
    /\ procs' = [procs EXCEPT ![dotFile] = @ - 1]
    /\ \E ok \in BOOLEAN :
          disk' = IF ok THEN DiskWrite(disk, Normalize(svg_file(dotFile)), SvgContent)
                  ELSE disk
    /\ UNCHANGED <<running, spawnErrors, srcWatched, reads, writes, regWatched,
                   dirty, errors, hist, settled, regVars, pathVars, stepVars>>

\* Mutant: the error branch logs but does not return, so the write is started
\* all the same.
ReadDone_NoReturn(dotFile) ==
    /\ running
    /\ reads[dotFile] > 0
    /\ reads' = [reads EXCEPT ![dotFile] = @ - 1]
    /\ writes' = [writes EXCEPT ![dotFile] = @ + 1]
    /\ \E err \in BOOLEAN :
          errors' = IF err THEN errors \cup {"read"} ELSE errors
    /\ UNCHANGED <<running, spawnErrors, srcWatched, procs, disk, regWatched,
                   dirty, hist, settled, regVars, pathVars, stepVars>>

\* lines 37-47: the readFile callback; on success it starts the write.
ReadDone(dotFile) ==
    /\ running
    /\ reads[dotFile] > 0
    /\ reads' = [reads EXCEPT ![dotFile] = @ - 1]
    /\ \E err \in BOOLEAN :
          IF err
          THEN /\ errors' = errors \cup {"read"}
               /\ UNCHANGED writes
          ELSE /\ writes' = [writes EXCEPT ![dotFile] = @ + 1]
               /\ UNCHANGED errors
    /\ UNCHANGED <<running, spawnErrors, srcWatched, procs, disk, regWatched,
                   dirty, hist, settled, regVars, pathVars, stepVars>>

\* Mutant: the write callback also appends the page to the registry.
WriteDone_UpdatesRegistry(dotFile) ==
    /\ running
    /\ writes[dotFile] > 0
    /\ writes' = [writes EXCEPT ![dotFile] = @ - 1]
    /\ \E err \in BOOLEAN :
          IF err
          THEN /\ errors' = errors \cup {"write"}
               /\ UNCHANGED <<disk, dirty, dots>>
          ELSE LET path == Normalize(html_file(dotFile))
               IN  /\ disk' = DiskWrite(disk, path, graphHtml(dotFile))
                   /\ dirty' = IF path \in regWatched THEN dirty \cup {path} ELSE dirty
                   /\ dots' = Append(dots, RegEntry(path))
                   /\ UNCHANGED errors
    /\ UNCHANGED <<running, spawnErrors, srcWatched, procs, reads, regWatched,
                   hist, settled, regHist, refreshes, pathVars, stepVars>>

\* lines 47-53: the write and its callback.
WriteDone(dotFile) ==
    /\ running
    /\ writes[dotFile] > 0
    /\ writes' = [writes EXCEPT ![dotFile] = @ - 1]
    /\ \E err \in BOOLEAN :
          IF err
          THEN /\ errors' = errors \cup {"write"}
               /\ UNCHANGED <<disk, dirty>>
          ELSE LET path == Normalize(html_file(dotFile))
               IN  /\ disk' = DiskWrite(disk, path, graphHtml(dotFile))
                   /\ dirty' = IF path \in regWatched THEN dirty \cup {path} ELSE dirty
                   /\ UNCHANGED errors
    /\ UNCHANGED <<running, spawnErrors, srcWatched, procs, reads, regWatched,
                   hist, settled, regHist, dots, refreshes, pathVars, stepVars>>

\* The registry watcher sees a new wrapper page: lines 65-74 with 'add'.
RegAdd(path) ==
    /\ running
    /\ path \in WrapperPagesOnDisk
    /\ path \notin regWatched
    /\ regWatched' = regWatched \cup {path}
    /\ dirty' = dirty \ {path}
    /\ RegistryHandler("add", path)
    /\ UNCHANGED <<running, spawnErrors, srcWatched, procs, reads, writes, disk,
                   errors, hist, settled, regHist, pathVars, stepVars>>

\* The registry watcher sees a wrapper page gone: lines 65-74 with 'unlink'.
RegUnlink(path) ==
    /\ running
    /\ path \in regWatched
    /\ path \notin DOMAIN disk
    /\ regWatched' = regWatched \ {path}
    /\ dirty' = dirty \ {path}
    /\ RegistryHandler("unlink", path)
    /\ UNCHANGED <<running, spawnErrors, srcWatched, procs, reads, writes, disk,
                   errors, hist, settled, regHist, pathVars, stepVars>>

\* The registry watcher sees a wrapper page rewritten: lines 65-74 with 'change'.
RegChange(path) ==
    /\ running
    /\ path \in regWatched
    /\ path \in DOMAIN disk
    /\ path \in dirty
    /\ dirty' = dirty \ {path}
    /\ RegistryHandler("change", path)
    /\ UNCHANGED <<running, spawnErrors, srcWatched, procs, reads, writes, disk,
                   regWatched, errors, hist, settled, regHist, pathVars, stepVars>>

WrapperPaths == { Normalize(html_file(d)) : d \in DotFiles }

Next ==
    \/ \E d \in DotFiles : SrcAdd(d)
    \/ \E d \in DotFiles : SrcUnlink(d)
    \/ \E d \in DotFiles : SrcChange(d)
    \/ \E d \in DotFiles : RenderExit(d)
    \/ \E d \in DotFiles : ReadDone(d)
    \/ \E d \in DotFiles : WriteDone(d)
    \/ \E p \in WrapperPaths : RegAdd(p)
    \/ \E p \in WrapperPaths : RegUnlink(p)
    \/ \E p \in WrapperPaths : RegChange(p)

Spec == Init /\ [][Next]_vars

\* The event loop runs every ready callback; the renderer is another process
\* and may never exit, the producer of description files may stop at any time.
Fairness ==
    /\ \A d \in DotFiles : WF_vars(ReadDone(d)) /\ WF_vars(WriteDone(d))
    /\ \A p \in WrapperPaths : WF_vars(RegAdd(p)) /\ WF_vars(RegUnlink(p)) /\ WF_vars(RegChange(p))

FairSpec == Spec /\ Fairness

----------------------------------------------------------------------------
(* The source handler under arbitrary events: SpecSource *)

\* One event, of any kind and for any file, delivered to the handler of
\* lines 30-63.
SourceEvent ==
    \E event \in SrcEvents, d \in DotFiles :
        /\ Len(hist) < MaxSrcEvents
        /\ SourceHandler(event, d)

NextSource ==
    \/ SourceEvent
    \/ \E d \in DotFiles : RenderExit(d)
    \/ \E d \in DotFiles : ReadDone(d)
    \/ \E d \in DotFiles : WriteDone(d)

SpecSource == Init /\ [][NextSource]_vars

----------------------------------------------------------------------------
(* Properties of the registry handler (SpecRegistry) *)

Range(seq) == { seq[i] : i \in DOMAIN seq }

NoDuplicates(seq) == \A i, j \in DOMAIN seq : seq[i] = seq[j] => i = j

Last(seq) == seq[Len(seq)]

\* A step that delivers one event to the registry handler.
Delivered == Len(regHist') = Len(regHist) + 1

Adds(path)    == Cardinality({ i \in DOMAIN regHist : regHist[i] = <<"add", path>> })

Unlinks(path) == Cardinality({ i \in DOMAIN regHist : regHist[i] = <<"unlink", path>> })

\* The add/unlink events of one path, in delivery order.
EventsOf(path) ==
    SelectSeq(regHist, LAMBDA e : e[2] = path /\ e[1] \in {"add", "unlink"})

\* Each path's events are add, unlink, add, ... as a watcher delivers them.
Alternating ==
    \A path \in RegPaths :
        \A i \in DOMAIN EventsOf(path) :
            EventsOf(path)[i][1] = IF i % 2 = 1 THEN "add" ELSE "unlink"

\* C1: after any sequence of registry-watcher events, `dots` never holds two
\* entries for the same path.
C1_NoDuplicateEntries == NoDuplicates(dots)

\* C1 witness: an add was delivered for a path that was already present.
C1_Witness ==
    \E path \in RegPaths :
        /\ Adds(path) >= 2
        /\ Unlinks(path) = 0
        /\ RegEntry(path) \in Range(dots)

\* C2 as stated: one refresh for an event that changes `dots`, none for an
\* event that leaves it unchanged.
C2_RefreshOnlyOnChange ==
    [][Delivered => refreshes' = refreshes + (IF dots' # dots THEN 1 ELSE 0)]_vars

\* C2 amended: the handler sends exactly one refresh for every event it is
\* given, whether or not the event changes `dots`; nothing else sends one.
C2_RefreshOncePerEvent ==
    [][/\ Delivered => refreshes' = refreshes + 1
       /\ refreshes' # refreshes => Delivered]_vars

\* C2 witness: only events that change nothing were delivered, and each was
\* followed by a refresh.
C2_Witness ==
    /\ Len(regHist) >= 2
    /\ dots = <<>>
    /\ \E i \in DOMAIN regHist : regHist[i][1] = "unlink"
    /\ \E i \in DOMAIN regHist : regHist[i][1] = "change"
    /\ refreshes = Len(regHist)

\* C4: every step keeps the relative order of the entries it keeps, and a
\* removal deletes the entry of its own path and nothing else.
C4_InsertionOrderPreserved ==
    [][/\ \A i, j \in DOMAIN dots :
             (i < j /\ dots[i] \in Range(dots') /\ dots[j] \in Range(dots'))
                 => ArrIndexOf(dots', dots[i]) < ArrIndexOf(dots', dots[j])
       /\ Delivered =>
             LET e == Last(regHist')
             IN  /\ Range(dots) \ Range(dots') \subseteq {RegEntry(e[2])}
                 /\ e[1] = "unlink" =>
                        dots' = SelectSeq(dots, LAMBDA x : x # RegEntry(e[2]))]_vars

\* C4 witness: three entries were appended and the middle one was removed.
C4_Witness ==
    /\ Len(regHist) = 4
    /\ \A i \in 1..3 : regHist[i][1] = "add"
    /\ regHist[4] = <<"unlink", regHist[2][2]>>
    /\ dots = <<RegEntry(regHist[1][2]), RegEntry(regHist[3][2])>>

NetOddPaths == { path \in RegPaths : (Adds(path) - Unlinks(path)) % 2 = 1 }

LastIsAddPaths ==
    { path \in RegPaths : EventsOf(path) # <<>> /\ Last(EventsOf(path))[1] = "add" }

\* C5 as stated: for every sequence of events, the entries are the paths with
\* an odd net count (adds minus removals).
C5_NetOddForAllSequences == Range(dots) = { RegEntry(path) : path \in NetOddPaths }

\* C5 amended: the entries are the paths whose latest add/removal event is an
\* add; when each path's events alternate add, removal, add, ... these are
\* the paths with an odd net count.
C5_LastEventDecides ==
    /\ Range(dots) = { RegEntry(path) : path \in LastIsAddPaths }
    /\ Alternating => Range(dots) = { RegEntry(path) : path \in NetOddPaths }

\* C5 witness: one path got a repeated add (net count two, still present)
\* while another was added and removed.
C5_Witness ==
    \E p, q \in RegPaths :
        /\ p # q
        /\ Adds(p) = 2 /\ Unlinks(p) = 0
        /\ Adds(q) = 1 /\ Unlinks(q) = 1
        /\ Range(dots) = {RegEntry(p)}

\* C6: an add for a present path and a removal for an absent path leave
\* `dots` as it was, and delivering the same add or removal a second time in
\* a row changes nothing.
C6_Idempotent ==
    [][Delivered =>
          LET e == Last(regHist')
          IN  /\ (e[1] = "add" /\ RegEntry(e[2]) \in Range(dots)) => dots' = dots
              /\ (e[1] = "unlink" /\ RegEntry(e[2]) \notin Range(dots)) => dots' = dots
              /\ (regHist # <<>> /\ Last(regHist) = e /\ e[1] \in {"add", "unlink"})
                    => dots' = dots]_vars

\* C6 witness: a removal for an absent path arrived while other entries were
\* present, and an add was repeated.
C6_Witness ==
    /\ Len(regHist) = 4
    /\ regHist[1][1] = "add"
    /\ regHist[2] = regHist[1]
    /\ regHist[3][1] = "unlink" /\ regHist[3][2] # regHist[1][2]
    /\ regHist[4] = regHist[3]
    /\ dots = <<RegEntry(regHist[1][2])>>

----------------------------------------------------------------------------
(* Properties of the pipeline end to end (Spec, FairSpec) *)

File_a == <<".", "/", "a">> \o S_dot

File_b == <<".", "/", "b">> \o S_dot

\* The registry entry of a description file's wrapper page.
EntryOf(dotFile) == RegEntry(Normalize(html_file(dotFile)))

\* removed(d) was the last add/removal handled for d.
Removed(dotFile) ==
    /\ dotFile \notin srcWatched
    /\ \E i \in DOMAIN hist : hist[i] = <<"unlink", dotFile>>

\* Everything started by handlers of d has finished.
WorkFinished(dotFile) ==
    procs[dotFile] = 0 /\ reads[dotFile] = 0 /\ writes[dotFile] = 0

\* C3: once removed(d) is handled and the work started by earlier added(d)
\* events has finished, neither the image nor the wrapper page of d exists.
C3_RemovedLeavesNoArtifact ==
    \A d \in DotFiles :
        (Removed(d) /\ WorkFinished(d)) =>
            /\ Normalize(svg_file(d)) \notin DOMAIN disk
            /\ Normalize(html_file(d)) \notin DOMAIN disk

\* The service is up, nothing is pending, no read or write failed, and every
\* source event so far was delivered after the previous one had settled.
SettledRun == running /\ errors = {} /\ settled /\ Quiescent

\* C7: add a, add b, remove a, re-add a, each after quiescence, give the
\* snapshots [a], [a, b], [b], [b, a]; in general the wrapper page of the
\* file added last is the last entry of the registry.
C7_EndToEndScenario ==
    SettledRun =>
        /\ hist = <<<<"add", File_a>>>> => dots = <<EntryOf(File_a)>>
        /\ hist = <<<<"add", File_a>>, <<"add", File_b>>>>
              => dots = <<EntryOf(File_a), EntryOf(File_b)>>
        /\ hist = <<<<"add", File_a>>, <<"add", File_b>>, <<"unlink", File_a>>>>
              => dots = <<EntryOf(File_b)>>
        /\ hist = <<<<"add", File_a>>, <<"add", File_b>>, <<"unlink", File_a>>,
                    <<"add", File_a>>>>
              => dots = <<EntryOf(File_b), EntryOf(File_a)>>
        /\ (hist # <<>> /\ Last(hist)[1] = "add")
              => (dots # <<>> /\ Last(dots) = EntryOf(Last(hist)[2]))

\* C7 witness: the whole scenario has run and settled.
C7_Witness ==
    /\ SettledRun
    /\ hist = <<<<"add", File_a>>, <<"add", File_b>>, <<"unlink", File_a>>,
                <<"add", File_a>>>>
    /\ dots = <<EntryOf(File_b), EntryOf(File_a)>>

\* C8: a renderer that cannot be invoked does not stop the service.
C8_SpawnFailureDoesNotCrash == \A d \in DotFiles : d \in spawnErrors => running

\* C10: when no read or write fails, a description file that stays added
\* ends up with its wrapper page in the registry and a refresh sent.
C10_AddedIsEventuallyListed ==
    \A d \in DotFiles :
        ([](errors = {}) /\ <>[](d \in srcWatched))
            => <>[](EntryOf(d) \in Range(dots) /\ refreshes > 0)

----------------------------------------------------------------------------
(* Properties of the path derivation (SpecPaths) *)

\* The stem of a description file name: the name without a final ".dot".
Stem(name) ==
    IF EndsWith(name, S_dot) THEN SubSeq(name, 1, Len(name) - Len(S_dot)) ELSE name

\* C9: image and wrapper paths are output directory + stem + extension, they
\* differ, and the page is the template with the image's file name in place
\* of the placeholder.
C9_PathsFromStem ==
    derivOut # NoDeriv =>
        LET stem == Stem(basename(derivIn))
        IN  /\ derivOut.svg_file = svgDir \o stem \o S_svg
            /\ derivOut.html_file = svgDir \o stem \o S_html
            /\ derivOut.svg_file # derivOut.html_file
            /\ derivOut.graphHtml = <<"<">> \o stem \o S_svg \o <<">">>

----------------------------------------------------------------------------
(* Frame and failure properties of the pipeline (Spec) *)

\* A step of the registry watcher's handler.
RegistryStep == refreshes' = refreshes + 1

\* A step of the source watcher's handler, of one of its callbacks, or of the
\* renderer.
PipelineStep ==
    hist' # hist \/ procs' # procs \/ reads' # reads \/ writes' # writes
        \/ disk' # disk \/ errors' # errors \/ running' # running

\* C11: no step of the render pipeline changes `dots`; `dots` changes only in
\* a step of the registry watcher's handler.
C11_PipelineNeverMutatesRegistry ==
    [][/\ PipelineStep => dots' = dots
       /\ dots' # dots => (RegistryStep /\ ~PipelineStep)]_vars

\* C11 witness: the pipeline has rendered a file (image and page on disk)
\* and deleted nothing yet, and the registry is still empty.
C11_Witness ==
    /\ Normalize(html_file(File_a)) \in DOMAIN disk
    /\ Normalize(svg_file(File_a)) \in DOMAIN disk
    /\ WorkFinished(File_a)
    /\ dots = <<>>

\* C12: a failed template read starts no write and writes no page, a failed
\* write is only logged, and neither stops the service: after a single
\* added(d) whose read or write failed, d has no page and nothing pending,
\* and the only thing that ever stops the service is a failed spawn.
C12_ReadWriteFailureContained ==
    /\ [](\A d \in DotFiles :
            (hist = <<<<"add", d>>>> /\ errors # {}) =>
                /\ running
                /\ reads[d] = 0 /\ writes[d] = 0
                /\ Normalize(html_file(d)) \notin DOMAIN disk)
    /\ [](~running => spawnErrors # {})
    /\ [][errors' # errors =>
             /\ running' = running
             /\ disk' = disk
             /\ dots' = dots
             /\ "read" \in errors' \ errors => writes' = writes]_vars

\* C12 witness: a read and a write have failed, and a file added afterwards
\* has been rendered and listed.
C12_Witness ==
    /\ running
    /\ errors = {"read", "write"}
    /\ Len(hist) >= 3
    /\ Last(hist)[1] = "add"
    /\ EntryOf(Last(hist)[2]) \in Range(dots)

----------------------------------------------------------------------------
(* Properties of the source handler under arbitrary events (SpecSource) *)

\* A step in which the source handler handles an event of the given kinds.
Handles(kinds) == hist' # hist /\ Last(hist')[1] \in kinds

\* C13: an event that is neither add nor unlink starts no renderer, reads
\* and writes nothing, deletes nothing and leaves the registry alone.
C13_ModificationIgnored ==
    [][Handles(SrcEvents \ {"add", "unlink"}) =>
          UNCHANGED <<procs, reads, writes, disk, dots, refreshes, running,
                      spawnErrors, errors, srcWatched>>]_vars

\* C13 witness: a modification was reported for a file that is rendered.
C13_Witness ==
    /\ hist # <<>>
    /\ Last(hist)[1] = "change"
    /\ Normalize(html_file(Last(hist)[2])) \in DOMAIN disk
    /\ WorkFinished(Last(hist)[2])

\* The two artifact paths of a description file, as the file system sees them.
ArtifactsOf(dotFile) == { Normalize(svg_file(dotFile)), Normalize(html_file(dotFile)) }

\* C14: removed(d) throws nothing and logs nothing, deletes exactly those
\* artifacts of d that exist and leaves every other file as it was; handled
\* again right away it changes nothing.
C14_DeleteIdempotent ==
    /\ [][Handles({"unlink"}) =>
             LET d == Last(hist')[2]
             IN  /\ running' = running
                 /\ errors' = errors
                 /\ DOMAIN disk' = DOMAIN disk \ ArtifactsOf(d)
                 /\ \A q \in DOMAIN disk' : disk'[q] = disk[q]
                 /\ (hist # <<>> /\ Last(hist) = <<"unlink", d>>
                       /\ ArtifactsOf(d) \cap DOMAIN disk = {}) => disk' = disk]_vars
    /\ [](\A d \in DotFiles :
            LET once == UnlinkArtifacts(disk, d)
            IN  /\ ~UnlinkThrows(once, d)
                /\ UnlinkArtifacts(once, d) = once)

\* C14 witness: removed(d) was handled twice in a row with nothing of d on
\* disk, while the page of another file is there and stays.
C14_Witness ==
    /\ running
    /\ Len(hist) >= 2
    /\ Last(hist)[1] = "unlink"
    /\ hist[Len(hist) - 1] = Last(hist)
    /\ ArtifactsOf(Last(hist)[2]) \cap DOMAIN disk = {}
    /\ DOMAIN disk # {}

----------------------------------------------------------------------------
(* Properties of the registry handler line by line (SpecRegistrySteps) *)

RECURSIVE ApplyInOrder(_)
\* The registry after the given events, handled one after the other.
ApplyInOrder(events) ==
    IF events = <<>> THEN <<>>
    ELSE RegistryApply(ApplyInOrder(SubSeq(events, 1, Len(events) - 1)),
                       Last(events)[1], Last(events)[2])

\* C15: at most one invocation of the handler is between its lookup and its
\* return, the index it holds is the index in the current `dots`, and `dots`
\* is what handling the events one by one in delivery order gives.
C15_MutationIsExclusive ==
    /\ Len(inflight) <= 1
    /\ \A i \in DOMAIN inflight :
          inflight[i].pc = "lookedUp" =>
              inflight[i].index = ArrIndexOf(dots, RegEntry(inflight[i].path))
    /\ dots = ApplyInOrder(regHist)

\* C15 witness: a removal has looked up an entry that is not the first and
\* has not spliced yet.
C15_Witness ==
    /\ Len(inflight) = 1
    /\ inflight[1].event = "unlink"
    /\ inflight[1].pc = "lookedUp"
    /\ inflight[1].index = 1
    /\ Len(dots) = 2

\* C17: every refresh sent so far belongs to an event whose mutation is
\* already in `dots`, and what a browser fetched after n refreshes contains
\* at least the first n events.
C17_RefreshAfterMutation ==
    /\ refreshes <= Len(regHist)
    /\ viewer.fetched <= viewer.version
    /\ viewer.version <= Len(regHist)
    /\ viewer.snapshot = ApplyInOrder(SubSeq(regHist, 1, viewer.version))

\* C17 witness: a browser fetched after the second refresh and got both
\* entries.
C17_Witness ==
    /\ viewer.fetched = 2
    /\ Len(viewer.snapshot) = 2
    /\ inflight = <<>>

----------------------------------------------------------------------------
(* Registry and disk (Spec) *)

RegistryEntriesOnDisk == { RegEntry(p) : p \in WrapperPagesOnDisk }

\* C16: before any event the output directory and the registry are empty,
\* and whenever nothing is pending the registry lists exactly the wrapper
\* pages in the output directory.
C16_RegistryMatchesDisk ==
    /\ hist = <<>> => (disk = EmptyDir /\ dots = <<>>)
    /\ Quiescent => (Range(dots) = RegistryEntriesOnDisk /\ NoDuplicates(dots))

\* C16 witness: quiescent, after a removal, with one page listed and on disk
\* and the other page gone from both.
C16_Witness ==
    /\ Quiescent
    /\ running
    /\ \E i \in DOMAIN hist : hist[i][1] = "unlink"
    /\ Cardinality(WrapperPagesOnDisk) = 1
    /\ Len(dots) = 1
    /\ Cardinality(regWatched) = 1
    /\ refreshes >= 3

====
